---- MODULE Spec2Model ----
(***************************************************************************)
(* AethericClientService: the streaming frame decoder and the collection   *)
(* controller of src/src/aetheric-client/aetheric-client.service.ts.       *)
(*                                                                         *)
(* Bytes are integers 0..255, a Buffer is a sequence of bytes.  Indices    *)
(* are the 0-based indices of the source; Subarray translates them to the  *)
(* 1-based sequences of TLA+.                                              *)
(***************************************************************************)
EXTENDS Integers, Sequences, FiniteSets, TLC

VARIABLES
  status,      \* this.status: CollectionStatus
  buffer,      \* this.buffer
  client,      \* this.client: 0 is null, otherwise the id of a socket
  sockets,     \* every net.Socket created so far, by id
  conts,       \* stopCollection calls suspended at `await this.drainSocket()`
  sink,        \* the create() calls made since the last resetStatus(), in order
  saves,       \* create() calls whose promise has not been rejected
  session,     \* number of resetStatus() calls made by startCollection
  thrown,      \* what the last step threw, "none" when it threw nothing
  received,    \* bytes the transport delivered since the last resetStatus()
  dispatched,  \* create() calls made since the last resetStatus()
  stops,       \* the stopCollection() calls made since the last resetStatus()
  passes,      \* the scanner passes of the last step, when it was a 'data' event
  snapshot,    \* the object the last getStatus() returned, as it is now
  validation   \* a stored payload and, once validated, ValidationService's verdict

vars == <<status, buffer, client, sockets, conts, sink, saves, session,
          thrown, received, dispatched, stops, passes, snapshot,
          validation>>

(***************************************************************************)
(* Program constants                                                       *)
(***************************************************************************)
DOLLAR == 36
SEMI == 59
MARKER == 170
MinAsciiLength == 5
HeaderSize == 6
TargetMessages == 600

(***************************************************************************)
(* Bounds of the model                                                     *)
(***************************************************************************)
MaxSessions == 2     \* sessions of a behaviour; one more when the server is silent
MaxPayload == 5      \* longest ASCII payload of the enumerated ASCII frames
MaxL == 2            \* largest declared length of the enumerated binary frames
MaxTokens == 3       \* tokens per enumerated mixed stream
NearTarget == 1      \* frames still missing when a near-target run begins
SizeCap == 4194304   \* declared lengths above this are kept as this
ChunkSize == 7       \* outside SpecDecode a chunk is a multiple of this, or all that is left
MaxConts == 1        \* suspended stopCollection calls at which forceStop is no longer called

(***************************************************************************)
(* Buffer primitives                                                       *)
(***************************************************************************)
Min(S) == CHOOSE x \in S : \A y \in S : x <= y

\* buf.lastIndexOf in the place of buf.indexOf: the last such index
IndexOfLast(buf, value, from) ==
  LET hits == {i \in from..(Len(buf) - 1) : buf[i + 1] = value}
  IN IF hits = {} THEN -1 ELSE CHOOSE x \in hits : \A y \in hits : y <= x

\* buf.indexOf(value, from): first 0-based index >= from holding value, or -1
IndexOf(buf, value, from) ==
  LET hits == {i \in from..(Len(buf) - 1) : buf[i + 1] = value}
  IN IF hits = {} THEN -1 ELSE Min(hits)

\* buf.subarray(start, end): bytes start..end-1, end clamped to the length
Subarray(buf, start, end) ==
  SubSeq(buf, start + 1, IF end > Len(buf) THEN Len(buf) ELSE end)

\* buf.subarray(start)
SubarrayFrom(buf, start) == Subarray(buf, start, Len(buf))

\* buf.toString('ascii'): the highest bit of every byte is unset
ToStringAscii(buf) == [i \in 1..Len(buf) |-> buf[i] % 128]

\* A JavaScript number holds every 40-bit value exactly.  A value above
\* SizeCap is kept as SizeCap: it exceeds the length of every buffer of the
\* model, which is all that lines 168 and 173 ask of it.
Clamp(value) == IF value > SizeCap THEN SizeCap ELSE value

RECURSIVE ReadBE(_, _, _)
ReadBE(buf, i, value) ==
  IF i >= 5 THEN value
  ELSE ReadBE(buf, i + 1, Clamp(value * 256 + buf[i + 1]))

readUInt40BE(buf) == ReadBE(buf, 0, 0)

isValidAsciiPayload(payload) ==
  \A i \in 1..Len(payload) :
    ~(payload[i] < 32 \/ payload[i] > 126
        \/ payload[i] = DOLLAR \/ payload[i] = SEMI)

\* line 128 with > for >=
acceptsAsciiLongerOnly(payload) ==
  Len(payload) > MinAsciiLength /\ isValidAsciiPayload(payload)

\* the condition of line 128
acceptsAscii(payload) ==
  Len(payload) >= MinAsciiLength /\ isValidAsciiPayload(payload)

\* payload.includes(ch)
includes(payload, ch) == \E i \in 1..Len(payload) : payload[i] = ch

\* validation.service.ts lines 151-171 without the check of lines 157-160
validateAsciiPayloadPrintableOnly(payload) ==
  IF Len(payload) < MinAsciiLength THEN FALSE
  ELSE \A i \in 1..Len(payload) : ~(payload[i] < 32 \/ payload[i] > 126)

\* ValidationService.validateAsciiPayload(payload).isValid: a string is the
\* sequence of its char codes
validateAsciiPayload(payload) ==
  IF Len(payload) < MinAsciiLength THEN FALSE
  ELSE IF includes(payload, DOLLAR) \/ includes(payload, SEMI) THEN FALSE
  ELSE \A i \in 1..Len(payload) : ~(payload[i] < 32 \/ payload[i] > 126)

\* lines 136-139 and 181-184 with the last byte of the message left behind
removeMessageButLast(buf, from, to) ==
  Subarray(buf, 0, from) \o SubarrayFrom(buf, to - 1)

\* lines 136-139 and 181-184: the bytes before the message are kept
removeMessage(buf, from, to) ==
  Subarray(buf, 0, from) \o SubarrayFrom(buf, to)

\* lines 168-170 returning early for an empty payload as well
hasCompleteNonEmptyMessage(buf, headerIndex, payloadSize) ==
  ~(payloadSize = 0 \/ Len(buf) < headerIndex + HeaderSize + payloadSize)

\* the negation of the early return of lines 168-170
hasCompleteMessage(buf, headerIndex, payloadSize) ==
  ~(Len(buf) < headerIndex + HeaderSize + payloadSize)

(***************************************************************************)
(* The handlers work on one record holding the whole state, so that a      *)
(* handler that calls another is the composition of the two.               *)
(***************************************************************************)
World ==
  [status |-> status, buffer |-> buffer, client |-> client,
   sockets |-> sockets, conts |-> conts, sink |-> sink, saves |-> saves,
   session |-> session, thrown |-> "none", dispatched |-> dispatched,
   stops |-> stops, passes |-> <<>>]

\* socket.destroyed
isDestroyed(sock) == sock.st \in {"destroyed", "closed"}

\* socket.destroy(): 'close' is emitted later, never inside the call
\* and what the server still had to send never arrives
destroy(sock) ==
  IF sock.st \in {"connecting", "open"}
  THEN [sock EXCEPT !.st = "destroyed", !.wire = <<>>]
  ELSE sock

\* saveAsciiMessage / saveBinaryMessage up to the await: create() is called
save(w, type, payload) ==
  [w EXCEPT !.sink = Append(@, [type |-> type, payload |-> payload]),
            !.saves[<<type, w.session>>] = @ + 1,
            !.dispatched = @ + 1]

\* stopCollection up to `await this.drainSocket()`; drainSocket registers one
\* more 'data', 'end' and 'close' listener on this.client and a 5 s timer
stopCollection(w, via) ==
  LET w1 == [w EXCEPT !.stops = Append(@, [via |-> via,
                                           dispatched |-> w.dispatched])]
  IN IF w.client # 0 /\ ~isDestroyed(w.sockets[w.client])
     THEN [w1 EXCEPT !.sockets[w.client].written = Append(@, "STATUS"),
                     !.sockets[w.client].drains = @ + 1,
                     !.conts = Append(@, w.client)]
     ELSE [w1 EXCEPT !.status.isRunning = FALSE]

\* stopCollection after the await: lines 249-252
resumeStop(w) ==
  IF w.client = 0
  THEN [w EXCEPT !.thrown = "TypeError"]
  ELSE [w EXCEPT !.sockets[w.client] = destroy(@),
                 !.client = 0,
                 !.status.isRunning = FALSE]

checkCollectionComplete(w) ==
  IF w.status.totalMessages >= w.status.targetMessages
  THEN stopCollection(w, "complete")
  ELSE w

\* one entry of `passes`: what a scanner pass saw and did
Pass(kind, w0, w1, index, raw) ==
  [kind |-> kind, before |-> w0.buffer, after |-> w1.buffer,
   index |-> index, raw |-> raw,
   saved |-> SubSeq(w1.sink, Len(w0.sink) + 1, Len(w1.sink)),
   status0 |-> w0.status, status1 |-> w1.status]

logged(w, pass) == [w EXCEPT !.passes = Append(@, pass)]

tryProcessAsciiMessage(w) ==
  LET startIndex == IndexOf(w.buffer, DOLLAR, 0) IN
  IF startIndex = -1 THEN [processed |-> FALSE, w |-> w]
  ELSE
    LET endIndex == IndexOf(w.buffer, SEMI, startIndex) IN
    IF endIndex = -1 THEN [processed |-> FALSE, w |-> w]
    ELSE
      LET messageBuffer == Subarray(w.buffer, startIndex, endIndex + 1)
          raw == Subarray(messageBuffer, 1, Len(messageBuffer) - 1)
          payload == ToStringAscii(raw)
          w1 == IF acceptsAscii(payload)
                THEN [save(w, "ascii", payload) EXCEPT
                        !.status.asciiMessages = @ + 1,
                        !.status.totalMessages = @ + 1]
                ELSE w
          w2 == [w1 EXCEPT !.buffer =
                   removeMessage(w.buffer, startIndex, endIndex + 1)]
          w3 == checkCollectionComplete(w2)
      IN [processed |-> TRUE,
          w |-> logged(w3, Pass("ascii", w, w3, startIndex, raw))]

tryProcessBinaryMessage(w) ==
  IF Len(w.buffer) < HeaderSize THEN [processed |-> FALSE, w |-> w]
  ELSE
    LET headerIndex == IndexOf(w.buffer, MARKER, 0) IN
    IF headerIndex = -1 THEN [processed |-> FALSE, w |-> w]
    ELSE IF Len(w.buffer) < headerIndex + HeaderSize
    THEN [processed |-> FALSE, w |-> w]
    ELSE
      LET sizeBuffer == Subarray(w.buffer, headerIndex + 1, headerIndex + 6)
          payloadSize == readUInt40BE(sizeBuffer)
          totalMessageSize == HeaderSize + payloadSize
      IN IF ~hasCompleteMessage(w.buffer, headerIndex, payloadSize)
         THEN [processed |-> FALSE, w |-> w]
         ELSE
           LET payload == Subarray(w.buffer, headerIndex + HeaderSize,
                                   headerIndex + HeaderSize + payloadSize)
               w1 == [save(w, "binary", payload) EXCEPT
                        !.status.binaryMessages = @ + 1,
                        !.status.totalMessages = @ + 1]
               w2 == [w1 EXCEPT !.buffer =
                        removeMessage(w.buffer, headerIndex,
                                      headerIndex + totalMessageSize)]
               w3 == checkCollectionComplete(w2)
           IN [processed |-> TRUE,
               w |-> logged(w3, Pass("binary", w, w3, headerIndex, payload))]

\* lines 94-108 with the binary attempt made first
tryProcessMessageBinaryFirst(w) ==
  LET binaryResult == tryProcessBinaryMessage(w) IN
  IF binaryResult.processed THEN binaryResult
  ELSE
    LET asciiResult == tryProcessAsciiMessage(w) IN
    IF asciiResult.processed THEN asciiResult
    ELSE [processed |-> FALSE,
          w |-> logged(w, Pass("none", w, w, -1, <<>>))]

tryProcessMessage(w) ==
  LET asciiResult == tryProcessAsciiMessage(w) IN
  IF asciiResult.processed THEN asciiResult
  ELSE
    LET binaryResult == tryProcessBinaryMessage(w) IN
    IF binaryResult.processed THEN binaryResult
    ELSE [processed |-> FALSE,
          w |-> logged(w, Pass("none", w, w, -1, <<>>))]

RECURSIVE processBuffer(_)
processBuffer(w) ==
  IF Len(w.buffer) > 0
  THEN LET r == tryProcessMessage(w)
       IN IF r.processed THEN processBuffer(r.w) ELSE r.w
  ELSE w

handleIncomingData(w, data) ==
  processBuffer([w EXCEPT !.buffer = @ \o data])

\* emit('data', data): the listeners registered when the emit begins are
\* called in turn; startCollection registered one, every drainSocket one more
RECURSIVE emitData(_, _, _)
emitData(w, data, listeners) ==
  IF listeners = 0 THEN w
  ELSE emitData(handleIncomingData(w, data), data, listeners - 1)

(***************************************************************************)
(* State                                                                   *)
(***************************************************************************)
SocketIds == 1..(MaxSessions + 1)
SaveKeys == {"ascii", "binary"} \X (0..(MaxSessions + 1))

\* lines 20-27 and 284-291
FreshStatus ==
  [isRunning |-> FALSE, totalMessages |-> 0, asciiMessages |-> 0,
   binaryMessages |-> 0, targetMessages |-> TargetMessages, errors |-> <<>>]

\* a stored ascii message that ValidationService has not validated yet
Stored(payload) == [payload |-> payload, checked |-> FALSE, isValid |-> FALSE]

\* no message is stored
NoValidation == Stored(<<>>)

\* no getStatus() yet.  `shared` says that the errors array of the object
\* returned is still the array of this.status: the spread of line 296
\* copies the reference, and only resetStatus() makes a new array.
NoSnapshot == [taken |-> FALSE, value |-> FreshStatus, shared |-> FALSE]

\* this.status.errors.push(e), seen through the object getStatus() returned
pushed(snap, e) ==
  IF snap.shared THEN [snap EXCEPT !.value.errors = Append(@, e)] ELSE snap

NoSocket ==
  [st |-> "none", ended |-> FALSE, drains |-> 0, written |-> <<>>,
   wire |-> <<>>]

\* new net.Socket() followed by connect(): `wire` is what the server will send
NewSocket(wire) ==
  [st |-> "connecting", ended |-> FALSE, drains |-> 0, written |-> <<>>,
   wire |-> wire]

Apply(w) ==
  /\ status' = w.status
  /\ buffer' = w.buffer
  /\ client' = w.client
  /\ sockets' = w.sockets
  /\ conts' = w.conts
  /\ sink' = w.sink
  /\ saves' = w.saves
  /\ session' = w.session
  /\ thrown' = w.thrown
  /\ dispatched' = w.dispatched
  /\ stops' = w.stops
  /\ UNCHANGED <<snapshot, validation>>

\* the suspended stopCollection calls whose promise an 'end' or 'close' of
\* socket s resolves run on, in the order they were suspended
RECURSIVE resumeAll(_, _)
resumeAll(w, n) == IF n = 0 THEN w ELSE resumeAll(resumeStop(w), n - 1)

resolveOn(w, s) ==
  LET waiting == SelectSeq(w.conts, LAMBDA c : c = s)
      others == SelectSeq(w.conts, LAMBDA c : c # s)
  IN resumeAll([w EXCEPT !.conts = others], Len(waiting))

(***************************************************************************)
(* Inputs                                                                  *)
(***************************************************************************)
RECURSIVE SeqsUpTo(_, _)
SeqsUpTo(S, n) ==
  IF n = 0 THEN {<<>>}
  ELSE LET shorter == SeqsUpTo(S, n - 1)
       IN shorter \cup {Append(q, x) : q \in {r \in shorter : Len(r) = n - 1},
                                        x \in S}

RECURSIVE Flatten(_)
Flatten(ss) == IF ss = <<>> THEN <<>> ELSE Head(ss) \o Flatten(Tail(ss))

EmptyBinaryFrame == <<170, 0, 0, 0, 0, 0>>
BinaryFrame == <<170, 0, 0, 0, 0, 1, 97>>
AsciiFrame == <<36, 97, 97, 97, 97, 97, 59>>
BadAsciiFrame == <<36, 97, 97, 31, 97, 97, 59>>

\* '$' payload ';' for every payload over the first and the last printable
\* byte, a control byte, a byte with the high bit set and '$'
PayloadBytes == {32, 126, 31, 225, 36}
AsciiFrames ==
  {<<DOLLAR>> \o p \o <<SEMI>> : p \in SeqsUpTo(PayloadBytes, MaxPayload)}

\* 0xAA, the 5-byte length L, L payload bytes
BinaryBytes == {0, 36, 59, 170, 97}
BinaryFrames ==
  {<<MARKER, 0, 0, 0, 0, Len(p)>> \o p : p \in SeqsUpTo(BinaryBytes, MaxL)}

\* streams made of markers, frames, headers and stray bytes
Tokens ==
  {<<36>>, <<59>>, <<97>>, <<225>>, <<170, 0, 0, 0, 0, 1>>,
   EmptyBinaryFrame, AsciiFrame, <<97, 97, 97, 97, 97>>}
MixedStreams == {Flatten(ts) : ts \in SeqsUpTo(Tokens, MaxTokens)}

\* payload strings for the validators: the char codes around both ends of
\* the printable range, the two markers and a code no byte can hold
ValidationCodes == {31, 32, 36, 59, 126, 127, 8364}
ValidationPayloads == SeqsUpTo(ValidationCodes, MaxPayload)

\* a frame of one format sent in the middle of a frame of the other
NestedStreams ==
  {<<36, 97, 98>> \o EmptyBinaryFrame \o <<99, 100, 101, 59>>,
   <<170, 0, 0, 0, 0, 2, 98>> \o AsciiFrame \o <<99>>}

DecodeStreams ==
  AsciiFrames \cup BinaryFrames \cup MixedStreams \cup NestedStreams

SessionStreams == {BinaryFrame, AsciiFrame}

\* the chunk lengths of the specifications that are not about chunking
ChunkLengths(wire) ==
  {n \in 1..Len(wire) : n % ChunkSize = 0 \/ n = Len(wire)}

TargetStreams ==
  {Flatten(fs) :
     fs \in SeqsUpTo({BinaryFrame, AsciiFrame, BadAsciiFrame},
                     NearTarget + 1)}

(***************************************************************************)
(* Initial states                                                          *)
(***************************************************************************)
\* the service as constructed
Constructed(stored) ==
  /\ status = FreshStatus
  /\ buffer = <<>>
  /\ client = 0
  /\ sockets = [s \in SocketIds |-> NoSocket]
  /\ conts = <<>>
  /\ sink = <<>>
  /\ saves = [k \in SaveKeys |-> 0]
  /\ session = 0
  /\ thrown = "none"
  /\ received = <<>>
  /\ dispatched = 0
  /\ stops = <<>>
  /\ passes = <<>>
  /\ snapshot = NoSnapshot
  /\ validation = stored

Init == Constructed(NoValidation)

\* the collector idle, one ascii message in the store
InitValidation ==
  \E payload \in ValidationPayloads : Constructed(Stored(payload))

\* the first session, connected and authenticated, `count` frames decoded
\* and saved, nothing buffered
Collecting(count, wire) ==
  /\ status = [FreshStatus EXCEPT !.isRunning = TRUE,
                                  !.totalMessages = count,
                                  !.asciiMessages = count]
  /\ buffer = <<>>
  /\ client = 1
  /\ sockets = [s \in SocketIds |->
                  IF s = 1
                  THEN [NewSocket(wire) EXCEPT !.st = "open",
                                               !.written = <<"AUTH">>]
                  ELSE NoSocket]
  /\ conts = <<>>
  /\ sink = <<>>
  /\ saves = [k \in SaveKeys |-> 0]
  /\ session = 1
  /\ thrown = "none"
  /\ received = <<>>
  /\ dispatched = count
  /\ stops = <<>>
  /\ passes = <<>>
  /\ snapshot = NoSnapshot
  /\ validation = NoValidation

InitDecode == \E wire \in DecodeStreams : Collecting(0, wire)

\* a session whose server sends one frame, chunked in every way
InitDrain == \E wire \in SessionStreams : Collecting(0, wire)

InitTarget ==
  \E k \in 1..NearTarget, wire \in TargetStreams :
    Collecting(TargetMessages - k, wire)

(***************************************************************************)
(* Actions                                                                 *)
(***************************************************************************)
\* lines 36-41 with resetStatus() called before the isRunning check
StartCollectionResetsFirst ==
  /\ status.isRunning
  /\ status' = [FreshStatus EXCEPT !.isRunning = TRUE]
  /\ thrown' = "Collection is already running"
  /\ passes' = <<>>
  /\ UNCHANGED validation
  /\ UNCHANGED <<buffer, client, sockets, conts, sink, saves,
                 session, received, dispatched, stops, snapshot>>

\* startCollection() while a collection is running: lines 36-38
StartCollectionRejected ==
  /\ status.isRunning
  /\ thrown' = "Collection is already running"
  /\ passes' = <<>>
  /\ UNCHANGED validation
  /\ UNCHANGED <<status, buffer, client, sockets, conts, sink, saves,
                 session, received, dispatched, stops, snapshot>>

\* startCollection() up to the return of the promise: lines 40-77; the
\* server of the new connection will send one of `wires`
StartCollectionOf(wires, limit) ==
  /\ ~status.isRunning
  /\ session < limit
  /\ \E wire \in wires :
       sockets' = [sockets EXCEPT ![session + 1] = NewSocket(wire)]
  /\ status' = [FreshStatus EXCEPT !.isRunning = TRUE]
  /\ buffer' = <<>>
  /\ client' = session + 1
  /\ session' = session + 1
  /\ thrown' = "none"
  /\ received' = <<>>
  /\ dispatched' = 0
  /\ stops' = <<>>
  /\ passes' = <<>>
  /\ UNCHANGED validation
  /\ sink' = <<>>
  /\ snapshot' = [snapshot EXCEPT !.shared = FALSE]
  /\ UNCHANGED <<conts, saves>>

StartCollection == StartCollectionOf(SessionStreams, MaxSessions)

\* startCollection() to a server that sends nothing
StartSilentCollection == StartCollectionOf({<<>>}, MaxSessions + 1)

\* the connect callback of socket s: lines 52-60
Connect(s) ==
  /\ sockets[s].st = "connecting"
  /\ LET opened == [sockets EXCEPT ![s].st = "open"]
     IN IF client = 0
        THEN sockets' = opened /\ thrown' = "TypeError"
        ELSE /\ sockets' =
                  IF isDestroyed(opened[client]) THEN opened
                  ELSE [opened EXCEPT ![client].written = Append(@, "AUTH")]
             /\ thrown' = "none"
  /\ passes' = <<>>
  /\ UNCHANGED validation
  /\ UNCHANGED <<status, buffer, client, conts, sink, saves, session,
                 received, dispatched, stops, snapshot>>

\* a 'data' event of socket s carrying the next n bytes the server sent
Data(s, n) ==
  /\ sockets[s].st = "open"
  /\ ~sockets[s].ended
  /\ n \in 1..Len(sockets[s].wire)
  /\ LET chunk == SubSeq(sockets[s].wire, 1, n)
         w == emitData(World, chunk, 1 + sockets[s].drains)
     IN /\ Apply([w EXCEPT !.sockets[s].wire =
                               SubSeq(@, n + 1, Len(@))])
        /\ passes' = w.passes
        /\ received' = received \o chunk

\* lines 66-71 without line 69: isRunning is left as it is
SocketErrorKeepsRunning(s) ==
  /\ sockets[s].st \in {"connecting", "open"}
  /\ sockets' = [sockets EXCEPT ![s] = destroy(@)]
  /\ status' = [status EXCEPT
                  !.errors = Append(@, [message |-> "transport",
                                        origin |-> s])]
  /\ thrown' = "none"
  /\ passes' = <<>>
  /\ UNCHANGED validation
  /\ UNCHANGED <<buffer, client, conts, sink, saves, session,
                 received, dispatched, stops>>
  /\ snapshot' = pushed(snapshot, [message |-> "transport", origin |-> s])

\* an 'error' event of socket s: lines 66-71; the socket is destroyed
SocketError(s) ==
  /\ sockets[s].st \in {"connecting", "open"}
  /\ sockets' = [sockets EXCEPT ![s] = destroy(@)]
  /\ status' = [status EXCEPT
                  !.errors = Append(@, [message |-> "transport",
                                        origin |-> s]),
                  !.isRunning = FALSE]
  /\ thrown' = "none"
  /\ passes' = <<>>
  /\ UNCHANGED validation
  /\ UNCHANGED <<buffer, client, conts, sink, saves, session,
                 received, dispatched, stops>>
  /\ snapshot' = pushed(snapshot, [message |-> "transport", origin |-> s])

\* an 'end' event of socket s: the server sends nothing more; lines 271-274
SocketEnd(s) ==
  /\ sockets[s].st = "open"
  /\ ~sockets[s].ended
  /\ Apply(resolveOn([World EXCEPT !.sockets[s].ended = TRUE,
                                   !.sockets[s].wire = <<>>], s))
  /\ passes' = <<>>
  /\ UNCHANGED received

\* a socket that has ended destroys itself (allowHalfOpen is false)
SocketAutoDestroy(s) ==
  /\ sockets[s].st = "open"
  /\ sockets[s].ended
  /\ sockets' = [sockets EXCEPT ![s] = destroy(@)]
  /\ thrown' = "none"
  /\ passes' = <<>>
  /\ UNCHANGED validation
  /\ UNCHANGED <<status, buffer, client, conts, sink, saves, session,
                 received, dispatched, stops, snapshot>>

\* the 'close' event of a destroyed socket s: lines 73-76, then 276-279
SocketClose(s) ==
  /\ sockets[s].st = "destroyed"
  /\ Apply(resolveOn([World EXCEPT !.sockets[s].st = "closed",
                                   !.status.isRunning = FALSE], s))
  /\ passes' = <<>>
  /\ UNCHANGED received

\* the 5 s timer of the i-th suspended stopCollection call: lines 263-265
DrainTimeout(i) ==
  /\ i \in 1..Len(conts)
  /\ Apply(resumeStop([World EXCEPT !.conts =
             SubSeq(conts, 1, i - 1) \o SubSeq(conts, i + 1, Len(conts))]))
  /\ passes' = <<>>
  /\ UNCHANGED received

\* forceStop() up to its await: lines 299-303
ForceStop ==
  /\ Len(conts) < MaxConts
  /\ Apply(IF status.isRunning THEN stopCollection(World, "force")
           ELSE World)
  /\ passes' = <<>>
  /\ UNCHANGED received

\* lines 216-219 and 227-230 with the collection aborted in the catch
SaveRejectAborts(k) ==
  /\ saves[k] > 0
  /\ saves' = [saves EXCEPT ![k] = @ - 1]
  /\ status' = [status EXCEPT
                  !.errors = Append(@, [message |-> k[1], origin |-> k[2]]),
                  !.isRunning = FALSE]
  /\ thrown' = "none"
  /\ passes' = <<>>
  /\ UNCHANGED validation
  /\ UNCHANGED <<buffer, client, sockets, conts, sink, session,
                 received, dispatched, stops>>
  /\ snapshot' = pushed(snapshot, [message |-> k[1], origin |-> k[2]])

\* a create() promise is rejected: lines 216-219 and 227-230.  A promise
\* that is fulfilled changes nothing: it is one that is never rejected.
SaveReject(k) ==
  /\ saves[k] > 0
  /\ saves' = [saves EXCEPT ![k] = @ - 1]
  /\ status' = [status EXCEPT
                  !.errors = Append(@, [message |-> k[1], origin |-> k[2]])]
  /\ thrown' = "none"
  /\ passes' = <<>>
  /\ UNCHANGED validation
  /\ UNCHANGED <<buffer, client, sockets, conts, sink, session,
                 received, dispatched, stops>>
  /\ snapshot' = pushed(snapshot, [message |-> k[1], origin |-> k[2]])

\* getStatus(): lines 295-297
GetStatus ==
  /\ snapshot' = [taken |-> TRUE, value |-> status, shared |-> TRUE]
  /\ thrown' = "none"
  /\ passes' = <<>>
  /\ UNCHANGED validation
  /\ UNCHANGED <<status, buffer, client, sockets, conts, sink, saves,
                 session, received, dispatched, stops>>

\* validateAsciiMessages reaches the stored message and calls
\* validateAsciiPayload(message.payload): validation.service.ts lines 42-44
ValidateAscii ==
  /\ ~validation.checked
  /\ validation' = [validation EXCEPT
                      !.checked = TRUE,
                      !.isValid = validateAsciiPayload(validation.payload)]
  /\ thrown' = "none"
  /\ passes' = <<>>
  /\ UNCHANGED <<status, buffer, client, sockets, conts, sink, saves,
                 session, received, dispatched, stops, snapshot>>

Next ==
  \/ StartCollection
  \/ StartCollectionRejected
  \/ ForceStop
  \/ \E s \in SocketIds : Connect(s)
  \/ \E s \in SocketIds : \E n \in ChunkLengths(sockets[s].wire) : Data(s, n)
  \/ \E s \in SocketIds : SocketError(s)
  \/ \E s \in SocketIds : SocketEnd(s)
  \/ \E s \in SocketIds : SocketAutoDestroy(s)
  \/ \E s \in SocketIds : SocketClose(s)
  \/ \E i \in 1..Len(conts) : DrainTimeout(i)
  \/ \E k \in SaveKeys : SaveReject(k)

\* the decoder alone: one connection that stays up
NextDecode ==
  \/ \E n \in 1..Len(sockets[1].wire) : Data(1, n)
  \/ \E k \in SaveKeys : SaveReject(k)

\* one session to its end: no further startCollection() succeeds
NextSession ==
  \/ StartCollectionRejected
  \/ ForceStop
  \/ \E n \in ChunkLengths(sockets[1].wire) : Data(1, n)
  \/ SocketError(1)
  \/ SocketEnd(1)
  \/ SocketAutoDestroy(1)
  \/ SocketClose(1)
  \/ \E i \in 1..Len(conts) : DrainTimeout(i)
  \/ \E k \in SaveKeys : SaveReject(k)

\* one session whose server is sending while forceStop() is called
NextDrain ==
  \/ ForceStop
  \/ \E n \in 1..Len(sockets[1].wire) : Data(1, n)
  \/ SocketEnd(1)
  \/ \E i \in 1..Len(conts) : DrainTimeout(i)
  \/ \E k \in SaveKeys : SaveReject(k)

\* one session to its end, its status read at any moment
NextStatus ==
  \/ GetStatus
  \/ NextSession

\* the validation of stored messages, the collector idle
NextValidation == ValidateAscii

\* sessions one after the other, the server silent in each
NextSessions ==
  \/ StartSilentCollection
  \/ StartCollectionRejected
  \/ ForceStop
  \/ \E s \in SocketIds : Connect(s)
  \/ \E s \in SocketIds : SocketError(s)
  \/ \E s \in SocketIds : SocketEnd(s)
  \/ \E s \in SocketIds : SocketAutoDestroy(s)
  \/ \E s \in SocketIds : SocketClose(s)
  \/ \E i \in 1..Len(conts) : DrainTimeout(i)

Spec == Init /\ [][Next]_vars
SpecSessions == Init /\ [][NextSessions]_vars
SpecDecode == InitDecode /\ [][NextDecode]_vars
SpecTarget == InitTarget /\ [][NextSession]_vars
SpecDrain == InitDrain /\ [][NextDrain]_vars
SpecStatus == InitTarget /\ [][NextStatus]_vars
SpecValidation == InitValidation /\ [][NextValidation]_vars

(***************************************************************************)
(* Properties.  Under SpecDecode and SpecTarget there is one connection,   *)
(* socket 1: Script is everything its server sends, AllArrived says that   *)
(* the last byte has been delivered.                                       *)
(***************************************************************************)
Script == received \o sockets[1].wire
AllArrived == sockets[1].wire = <<>>

Counters(st) == <<st.asciiMessages, st.binaryMessages, st.totalMessages>>

\* a session that has received nothing yet, with the connection of now
FreshWorld ==
  [World EXCEPT !.status = [FreshStatus EXCEPT !.isRunning = TRUE],
                !.buffer = <<>>, !.sink = <<>>, !.dispatched = 0,
                !.stops = <<>>, !.saves = [k \in SaveKeys |-> 0]]

\* C1: the frames persisted and the counters after the chunks received so
\* far are those of a session that receives the same bytes as one chunk.
C1_ChunkingInvariance ==
  LET whole == handleIncomingData(FreshWorld, received)
  IN /\ sink = whole.sink
     /\ Counters(status) = Counters(whole.status)

\* the stopCollection() calls made by checkCollectionComplete()
CompletionStops == SelectSeq(stops, LAMBDA e : e.via = "complete")

\* C2: checkCollectionComplete() enters stopCollection() at most once in a
\* session, and when it does exactly targetMessages frames have been sent
\* to the sink.
C2_DrainEnteredOnceAtTarget ==
  /\ Len(CompletionStops) <= 1
  /\ \A i \in DOMAIN CompletionStops :
       CompletionStops[i].dispatched = status.targetMessages

StatusWrites(s) ==
  Len(SelectSeq(sockets[s].written, LAMBDA m : m = "STATUS"))

\* C3: STATUS is written to a connection at most once.
C3_StatusWrittenAtMostOnce == \A s \in SocketIds : StatusWrites(s) <= 1

\* the connections that can still deliver data
LiveSockets == {s \in SocketIds : sockets[s].st \in {"connecting", "open"}}

\* C4: at most one connection opened by startCollection() is live.
C4_SingleLiveTransport == Cardinality(LiveSockets) <= 1

\* the number of bytes of the frame a pass extracted
FrameLength(p) == (IF p.kind = "ascii" THEN 2 ELSE HeaderSize) + Len(p.raw)

\* C5: after a pass that extracted a frame, the buffer is what followed the
\* last byte of that frame: the bytes before its marker are gone with it.
C5_ConsumedInArrivalOrder ==
  \A i \in DOMAIN passes :
    LET p == passes[i]
    IN p.kind # "none" =>
         p.after = SubarrayFrom(p.before, p.index + FrameLength(p))

IsBinaryFrame(b) ==
  /\ Len(b) >= HeaderSize
  /\ b[1] = MARKER
  /\ \A i \in 2..5 : b[i] = 0
  /\ b[6] = Len(b) - HeaderSize

\* C6: once a session has received the bytes of one binary frame, however
\* chunked, it has persisted that frame and nothing else, counted it once,
\* and its buffer is empty.
C6_BinaryFrameReassembled ==
  (IsBinaryFrame(Script) /\ AllArrived) =>
     /\ sink = <<[type |-> "binary",
                  payload |-> SubarrayFrom(Script, HeaderSize)]>>
     /\ Counters(status) = <<0, 1, 1>>
     /\ buffer = <<>>

\* a payload as the protocol defines it: printable, without '$' and ';'
IsPrintablePayload(bytes) ==
  /\ Len(bytes) >= MinAsciiLength
  /\ \A i \in DOMAIN bytes :
       bytes[i] \in (32..126) \ {DOLLAR, SEMI}

IsWellFormedAsciiFrame(b) ==
  /\ Len(b) >= 2
  /\ b[1] = DOLLAR
  /\ b[Len(b)] = SEMI
  /\ IsPrintablePayload(Subarray(b, 1, Len(b) - 1))

\* C7: once a session has received '$' payload ';' with a well-formed
\* payload, however chunked, it has persisted that payload as one ascii
\* frame and nothing else, counted it once, emptied its buffer, and
\* recorded no error unless the sink has rejected the frame.
C7_AsciiFrameDecoded ==
  (IsWellFormedAsciiFrame(Script) /\ AllArrived) =>
     /\ sink = <<[type |-> "ascii",
                  payload |-> Subarray(Script, 1, Len(Script) - 1)]>>
     /\ Counters(status) = <<1, 0, 1>>
     /\ buffer = <<>>
     /\ saves[<<"ascii", 1>>] = 1 => status.errors = <<>>

C7_Witness ==
  /\ IsWellFormedAsciiFrame(Script)
  /\ AllArrived
  /\ Len(sink) = 1
  /\ Len(passes) = 1
  /\ passes[1].kind = "ascii"
  /\ passes[1].raw = sink[1].payload

\* C8: a pass that finds '$' ... ';' around bytes that are no well-formed
\* payload removes exactly those bytes and neither persists, counts nor
\* records an error.
C8_InvalidAsciiDropped ==
  \A i \in DOMAIN passes :
    LET p == passes[i]
    IN (p.kind = "ascii" /\ ~IsPrintablePayload(p.raw)) =>
         /\ p.after = removeMessage(p.before, p.index,
                                    p.index + FrameLength(p))
         /\ p.saved = <<>>
         /\ Counters(p.status1) = Counters(p.status0)
         /\ p.status1.errors = p.status0.errors

\* C9: an ascii frame is persisted only if the bytes of its payload, as
\* received, are a well-formed payload.
C9_OnlyPrintablePersisted ==
  \A i \in DOMAIN passes :
    LET p == passes[i]
    IN (p.kind = "ascii" /\ p.saved # <<>>) => IsPrintablePayload(p.raw)

\* the buffer holds '$' and, at or after it, ';'
HasAsciiSpan(b) ==
  \E i, j \in DOMAIN b : i <= j /\ b[i] = DOLLAR /\ b[j] = SEMI

\* the buffer holds all 6+L bytes from its first 0xAA
HasBinaryFrame(b) ==
  LET h == IndexOf(b, MARKER, 0)
  IN /\ h # -1
     /\ Len(b) >= h + HeaderSize
     /\ Len(b) >= h + HeaderSize
                    + readUInt40BE(Subarray(b, h + 1, h + HeaderSize))

C11_AsciiAttemptFirst ==
  \A i \in DOMAIN passes :
    LET p == passes[i]
        s == IndexOf(p.before, DOLLAR, 0)
    IN /\ HasAsciiSpan(p.before) =>
            /\ p.kind = "ascii"
            /\ p.index = s
            /\ p.raw = Subarray(p.before, s + 1, IndexOf(p.before, SEMI, s))
       /\ p.kind = "binary" => ~HasAsciiSpan(p.before)

\* a whole binary frame was buffered and the ascii span, which starts
\* inside that frame or behind it, was taken
C11_Witness ==
  \E i \in DOMAIN passes :
    LET p == passes[i]
    IN /\ p.kind = "ascii"
       /\ HasBinaryFrame(p.before)
       /\ IndexOf(p.before, MARKER, 0) < p.index

\* the bytes the last step delivered
Chunk == SubSeq(received', Len(received) + 1, Len(received'))

\* C12: a binary frame is taken only from a buffer that holds all 6+L bytes
\* from its marker, an ascii frame only from one that holds its end marker,
\* and an arrival whose passes complete no frame leaves the previous buffer
\* followed by the chunk, the status and the sink as they were.
C12_AllOrNothing ==
  [][/\ \A i \in DOMAIN passes' :
          LET p == passes'[i]
          IN /\ p.kind = "binary" => HasBinaryFrame(p.before)
             /\ p.kind = "ascii" => HasAsciiSpan(p.before)
     /\ (/\ Len(received') > Len(received)
         /\ \A i \in DOMAIN passes' : passes'[i].kind = "none")
          => /\ buffer' = buffer \o Chunk
             /\ status' = status
             /\ sink' = sink]_vars

Holds(bytes, value) == \E i \in DOMAIN bytes : bytes[i] = value

\* C13 as stated: the bytes between the markers of an ascii pass hold
\* neither '$' nor ';'.
C13_NoMarkerInCandidate ==
  \A i \in DOMAIN passes :
    passes[i].kind = "ascii" =>
      (~Holds(passes[i].raw, DOLLAR) /\ ~Holds(passes[i].raw, SEMI))

\* C13 amended: the bytes between the markers of an ascii pass never hold
\* ';'; they can hold '$', and such a frame is removed without being
\* persisted.
C13_NoEndMarkerInCandidate ==
  \A i \in DOMAIN passes :
    passes[i].kind = "ascii" =>
      /\ ~Holds(passes[i].raw, SEMI)
      /\ Holds(passes[i].raw, DOLLAR) => passes[i].saved = <<>>

\* a candidate of five or more bytes that holds '$' was dropped
C13_Witness ==
  \E i \in DOMAIN passes :
    /\ passes[i].kind = "ascii"
    /\ Len(passes[i].raw) >= MinAsciiLength
    /\ Holds(passes[i].raw, DOLLAR)
    /\ passes[i].saved = <<>>

\* C14: a startCollection() that fails with the already-running error was
\* called with isRunning true and leaves the status, the buffer, the client
\* and every transport, with what was written to it, as they were; and
\* while isRunning is true no step opens a new transport.
C14_RejectedStartChangesNothing ==
  [][/\ thrown' = "Collection is already running" =>
          /\ status.isRunning
          /\ UNCHANGED <<status, buffer, client, sockets, conts, sink,
                         saves, session, dispatched, stops>>
     /\ status.isRunning => session' = session]_vars

\* the start was rejected while a stop was draining a session that had
\* counted a frame
C14_Witness ==
  /\ thrown = "Collection is already running"
  /\ status.isRunning
  /\ status.totalMessages > 0
  /\ conts # <<>>

\* C15: once no stopCollection() is waiting for a drain any more, every
\* transport that was being drained (STATUS was written to it) is closed,
\* and a session that entered its stop sequence is not running.
C15_DrainEndsClosedAndIdle ==
  conts = <<>> =>
    /\ \A s \in SocketIds :
         StatusWrites(s) > 0 => isDestroyed(sockets[s])
    /\ stops # <<>> => ~status.isRunning

\* the step recorded one more error, whose message is `message`
Recorded(message) ==
  /\ Len(status'.errors) = Len(status.errors) + 1
  /\ SubSeq(status'.errors, 1, Len(status.errors)) = status.errors
  /\ status'.errors[Len(status'.errors)].message = message

\* C16: the step of a transport error appends that one message to the
\* error list and leaves isRunning false and the counters as they were; it
\* starts no session, opens no transport and writes to none.
C16_TransportErrorRecordedOnce ==
  [][\A s \in SocketIds :
       (/\ sockets[s].st \in {"connecting", "open"}
        /\ sockets'[s].st = "destroyed"
        /\ client' = client
        /\ status'.errors # status.errors) =>
          /\ Recorded("transport")
          /\ ~status'.isRunning
          /\ Counters(status') = Counters(status)
          /\ session' = session
          /\ \A t \in SocketIds :
               /\ sockets'[t].written = sockets[t].written
               /\ t # s => sockets'[t].st = sockets[t].st]_vars

\* the transport failed while a stop was draining at the target
C16_Witness ==
  /\ status.errors # <<>>
  /\ status.errors[Len(status.errors)].message = "transport"
  /\ ~status.isRunning
  /\ status.totalMessages >= status.targetMessages
  /\ conts # <<>>
  /\ sockets[1].st = "destroyed"

\* C17: the step in which the sink rejects a frame appends one error to
\* the error list and leaves isRunning, the counters, the buffer, the
\* client and every transport as they were.
C17_SaveFailureDoesNotAbort ==
  [][(\E k \in SaveKeys : saves'[k] < saves[k]) =>
       /\ \E type \in {"ascii", "binary"} : Recorded(type)
       /\ status'.isRunning = status.isRunning
       /\ Counters(status') = Counters(status)
       /\ UNCHANGED <<buffer, client, sockets, conts>>]_vars

\* after the sink had rejected a frame, a later arrival was decoded and
\* dispatched
C17_Witness ==
  /\ status.errors # <<>>
  /\ status.errors[1].message \in {"ascii", "binary"}
  /\ status.isRunning
  /\ \E i \in DOMAIN passes : passes[i].saved # <<>>
  /\ Len(sink) = 2

AuthWrites(s) ==
  Len(SelectSeq(sockets[s].written, LAMBDA m : m = "AUTH"))

\* C18: whatever was written to a transport begins with AUTH, AUTH is
\* written to it at most once, and a connected transport has had its AUTH.
C18_AuthFirstAndOnce ==
  \A s \in SocketIds :
    /\ sockets[s].written # <<>> => sockets[s].written[1] = "AUTH"
    /\ AuthWrites(s) <= 1
    /\ sockets[s].st = "open" => AuthWrites(s) = 1

\* the state of the controller
Controller == <<status, buffer, client, sockets, conts, sink, saves, session>>

\* C19: the first getStatus() returns the status and leaves the controller
\* as it was; a getStatus() that follows one with no event in between
\* returns an equal value; and a step that changes the controller leaves
\* the object returned earlier, its errors list included, as it was.
C19_SnapshotImmutable ==
  [][/\ (~snapshot.taken /\ snapshot'.taken) =>
          (snapshot'.value = status /\ UNCHANGED Controller)
     /\ (UNCHANGED Controller /\ snapshot.taken /\ snapshot.value = status)
          => snapshot'.value = snapshot.value
     /\ (snapshot.taken /\ Controller' # Controller) =>
          snapshot'.value = snapshot.value]_vars

\* the suspended stopCollection() calls that drain socket s
Waiting(q, s) == Len(SelectSeq(q, LAMBDA c : c = s))

\* C20: forceStop() enters the stop sequence only with isRunning true; it
\* then writes STATUS to the live transport and waits for its drain; and
\* the step that ends the drain of a transport leaves that transport
\* closed and isRunning false.
C20_ForceStopRunsStopSequence ==
  [][/\ (Len(stops') > Len(stops) /\ stops'[Len(stops')].via = "force") =>
          /\ status.isRunning
          /\ (client # 0 /\ ~isDestroyed(sockets[client])) =>
               /\ sockets'[client].written =
                    Append(sockets[client].written, "STATUS")
               /\ conts' = Append(conts, client)
     /\ \A s \in SocketIds :
          Waiting(conts', s) < Waiting(conts, s) =>
            (isDestroyed(sockets'[s]) /\ ~status'.isRunning)]_vars

\* C21: the step of a successful startCollection() leaves the counters 0,
\* the error list and the buffer empty, the target 600 and isRunning true;
\* and every entry of the error list comes from the transport or from a
\* frame of the session the list belongs to.
C21_CleanSessionOwnErrors ==
  [][/\ session' = session + 1 =>
          /\ status' = [FreshStatus EXCEPT !.isRunning = TRUE]
          /\ status'.targetMessages = TargetMessages
          /\ buffer' = <<>>
     /\ \A i \in DOMAIN status'.errors :
          status'.errors[i].origin = session']_vars

\* C22: the verdict of the offline validator on a payload string is the
\* verdict of the live acceptance test of line 128 on the same string.
C22_ValidatorsAgree ==
  validation.checked =>
    validation.isValid = acceptsAscii(validation.payload)

\* both accept a payload of the minimum length
C22_Witness ==
  /\ validation.checked
  /\ validation.isValid
  /\ acceptsAscii(validation.payload)
  /\ Len(validation.payload) = MinAsciiLength

\* the bytes the passes `ps` removed from the buffer
RECURSIVE Consumed(_)
Consumed(ps) ==
  IF ps = <<>> THEN 0
  ELSE Len(Head(ps).before) - Len(Head(ps).after) + Consumed(Tail(ps))

\* C23: an arrival is appended to the buffer once: its first pass sees the
\* previous buffer followed by the chunk, and the bytes left in the buffer
\* and the bytes its passes removed are the previous buffer and the chunk,
\* no byte more.
C23_ChunkAppendedOnce ==
  [][Len(received') > Len(received) =>
       /\ passes'[1].before = buffer \o Chunk
       /\ Len(buffer') + Consumed(passes') = Len(buffer) + Len(Chunk)]_vars

\* the step is an event of the transport of an earlier session, or ends a
\* stop sequence that was waiting on one
OfEarlierSession ==
  \E s \in SocketIds :
    /\ s < session
    /\ session' = session
    /\ sockets'[s] # sockets[s] \/ Waiting(conts', s) < Waiting(conts, s)

\* C24: a step that belongs to the transport of an earlier session leaves
\* isRunning, the counters and the buffer of the current session as they
\* were and does not destroy the current session's transport.
C24_SessionIsolation ==
  [][OfEarlierSession =>
       /\ status'.isRunning = status.isRunning
       /\ Counters(status') = Counters(status)
       /\ buffer' = buffer
       /\ isDestroyed(sockets'[session]) => isDestroyed(sockets[session])]_vars

\* `run` occupies consecutive positions of `stream`
IsRunOf(run, stream) ==
  \E k \in 0..(Len(stream) - Len(run)) :
    \A i \in 1..Len(run) : stream[k + i] = run[i]

\* C25: the payload bytes of every frame a pass persists are a run of
\* consecutive bytes of what the session has received.
C25_PayloadContiguous ==
  \A i \in DOMAIN passes :
    passes[i].saved # <<>> => IsRunOf(passes[i].raw, received)

\* C26: the passes of one arrival are finitely many: each pass that
\* processed a frame left the buffer shorter, by 2 bytes or more for ascii
\* and by 6 or more for binary, the next pass started from what it left,
\* and a pass that processed nothing was the last one.
C26_DecodeLoopTerminates ==
  \A i \in DOMAIN passes :
    LET p == passes[i]
    IN /\ p.kind = "ascii" => Len(p.after) <= Len(p.before) - 2
       /\ p.kind = "binary" => Len(p.after) <= Len(p.before) - HeaderSize
       /\ p.kind = "none" => (i = Len(passes) /\ p.after = p.before)
       /\ i < Len(passes) => passes[i + 1].before = p.after

\* one arrival: an ascii frame, a binary frame, then a pass that found
\* nothing in the bytes left
C26_Witness ==
  /\ Len(passes) = 3
  /\ passes[1].kind = "ascii"
  /\ passes[2].kind = "binary"
  /\ passes[3].kind = "none"
  /\ buffer # <<>>

====
